---- MODULE Spec2Model ----
(***************************************************************************)
(* Pill Reminder API (src/main.py, src/schemas.py) as a state machine.     *)
(*                                                                         *)
(* State: the three collections of the document store, the database       *)
(* handle, the process environment, the clock, and the answer to the last  *)
(* request (none when a day has passed since).  One action per endpoint.   *)
(*                                                                         *)
(* Encodings                                                               *)
(*   Optional[T]   None is <<>>, a present value x is <<x>>.               *)
(*   HH:MM text    a sequence of character ranks, '0'..'9' as 0..9 and     *)
(*                 ':' as 10 (the order of the code points), so that the   *)
(*                 lexical comparison of Python strings can be computed.   *)
(*   ISO text      a record [kind, y, m, d, tz]: the syntactic form of the *)
(*                 text (empty, garbage, date, datetime), its date fields  *)
(*                 and its UTC-offset suffix ("" when it has none).        *)
(*   ObjectId      a record [coll, n]; str() of it is looked up in IdText. *)
(*                                                                         *)
(* The handle is fixed at startup: absent, present with every operation    *)
(* failing, or working.  The clock moves in whole days.  The data access   *)
(* layer (create_document, get_documents) follows section 4.2 of the       *)
(* specification.                                                          *)
(***************************************************************************)
EXTENDS Integers, Sequences, FiniteSets, TLC

VARIABLES medication, intake, caregiverlink, db, environ, now, resp

vars == <<medication, intake, caregiverlink, db, environ, now, resp>>

store == <<medication, intake, caregiverlink>>

(***************************************************************************)
(* Bounds of the model.                                                    *)
(***************************************************************************)
MaxMeds == 2

MaxIntakes == 2

MaxLinks == 2

MaxTicks == 2

(***************************************************************************)
(* Python values.                                                          *)
(***************************************************************************)
None == <<>>

Some(x) == <<x>>

\* Python truthiness of an Optional[str]: None and "" are falsy.
TruthyStr(o) == o # None /\ o[1] # ""

\* Python truthiness of an Optional ISO text: None and the empty text are falsy.
TruthyIso(o) == o # None /\ o[1].kind # "empty"

\* `x or []` for an Optional[List]: None and [] both give [].
OrEmptyList(o) == IF o # None /\ o[1] # <<>> THEN o[1] ELSE <<>>

Range(s) == {s[i] : i \in DOMAIN s}

\* a < b for two Python strings given as sequences of character ranks.
RECURSIVE StrLess(_, _)
StrLess(a, b) ==
    IF b = <<>> THEN FALSE
    ELSE IF a = <<>> THEN TRUE
    ELSE IF Head(a) # Head(b) THEN Head(a) < Head(b)
    ELSE StrLess(Tail(a), Tail(b))

\* list.sort(key=lambda x: x["time"]): the stable ascending sort, as an
\* insertion of each element behind the elements that are not greater.
RECURSIVE InsertByTime(_, _)
InsertByTime(sorted, x) ==
    IF sorted = <<>> THEN <<x>>
    ELSE IF StrLess(x.time, Head(sorted).time) THEN <<x>> \o sorted
    ELSE <<Head(sorted)>> \o InsertByTime(Tail(sorted), x)

RECURSIVE SortByTime(_)
SortByTime(items) ==
    IF items = <<>> THEN <<>>
    ELSE InsertByTime(SortByTime(SubSeq(items, 1, Len(items) - 1)), items[Len(items)])

(***************************************************************************)
(* datetime: fromisoformat, weekday, date().isoformat(), comparison.       *)
(***************************************************************************)
IsoText(kind, y, m, d, tz) == [kind |-> kind, y |-> y, m |-> m, d |-> d, tz |-> tz]

EmptyText == IsoText("empty", 0, 0, 0, "")

GarbageText == IsoText("garbage", 0, 0, 0, "")

IsLeap(y) == y % 4 = 0 /\ (y % 100 # 0 \/ y % 400 = 0)

DaysInMonth(y, m) ==
    IF m = 2 THEN (IF IsLeap(y) THEN 29 ELSE 28)
    ELSE IF m \in {4, 6, 9, 11} THEN 30 ELSE 31

DaysBeforeYear(y) ==
    LET p == y - 1 IN p * 365 + (p \div 4) - (p \div 100) + (p \div 400)

RECURSIVE DaysBeforeMonth(_, _)
DaysBeforeMonth(y, m) ==
    IF m = 1 THEN 0 ELSE DaysBeforeMonth(y, m - 1) + DaysInMonth(y, m - 1)

ToOrdinal(dt) == DaysBeforeYear(dt.y) + DaysBeforeMonth(dt.y, dt.m) + dt.d

\* datetime.fromisoformat: ValueError on text that is not ISO or names no
\* calendar day; an aware datetime when the text carries a UTC offset.
fromisoformat(s) ==
    IF s.kind \in {"empty", "garbage"} \/ s.y < 1 \/ s.m \notin 1..12
       \/ s.d < 1 \/ s.d > DaysInMonth(s.y, s.m)
    THEN [raised |-> TRUE,  exc |-> "Invalid isoformat string",
          y |-> 0, m |-> 0, d |-> 0, aware |-> FALSE]
    ELSE [raised |-> FALSE, exc |-> "",
          y |-> s.y, m |-> s.m, d |-> s.d, aware |-> s.tz # ""]

\* Faulty variant: datetime.isoweekday(), 1 = Monday .. 7 = Sunday.
isoweekday(dt) == LET w == ToOrdinal(dt) % 7 IN IF w = 0 THEN 7 ELSE w

\* datetime.weekday(): 0 = Monday .. 6 = Sunday.
weekday(dt) == (ToOrdinal(dt) + 6) % 7

\* target.date().isoformat(): the calendar date alone, as text.
date_isoformat(dt) == IsoText("date", dt.y, dt.m, dt.d, "")

\* datetime.now() / datetime.utcnow(): a naive datetime.
datetime_now == [raised |-> FALSE, exc |-> "", y |-> now.y, m |-> now.m, d |-> now.d,
           aware |-> FALSE]

NextDay(t) ==
    IF t.d < DaysInMonth(t.y, t.m) THEN [t EXCEPT !.d = t.d + 1]
    ELSE IF t.m < 12 THEN [t EXCEPT !.m = t.m + 1, !.d = 1]
    ELSE [y |-> t.y + 1, m |-> 1, d |-> 1]

(***************************************************************************)
(* The data access layer: create_document and get_documents.               *)
(***************************************************************************)
IdText ==
    [medication    |-> <<"m1", "m2", "m3", "m4">>,
     intake        |-> <<"i1", "i2", "i3", "i4">>,
     caregiverlink |-> <<"l1", "l2", "l3", "l4">>]

\* str(ObjectId)
str(oid) == IdText[oid.coll][oid.n]

Collection(name) ==
    CASE name = "medication"    -> medication
      [] name = "intake"        -> intake
      [] name = "caregiverlink" -> caregiverlink

\* A document matches an equality filter when every key of the filter is a
\* field of the document with that value.
Matches(doc, filt) ==
    \A k \in DOMAIN filt : k \in DOMAIN doc /\ doc[k] = filt[k]

NoFilter == <<>>

\* The handle: "None" when no connection was made at startup, "down" when a
\* handle exists and every operation on it fails, "up" when the store answers.
DatabaseError ==
    IF db = "None" THEN "Database not available" ELSE "server selection timed out"

create_document(collection_name, data) ==
    IF db # "up"
    THEN [raised |-> TRUE, exc |-> DatabaseError, id |-> "", doc |-> <<>>]
    ELSE LET oid == [coll |-> collection_name, n |-> Len(Collection(collection_name)) + 1]
         IN  [raised |-> FALSE, exc |-> "", id |-> str(oid),
              doc |-> data @@ [_id |-> oid]]

get_documents(collection_name, filt) ==
    IF db # "up"
    THEN [raised |-> TRUE, exc |-> DatabaseError, docs |-> <<>>]
    ELSE [raised |-> FALSE, exc |-> "",
          docs |-> SelectSeq(Collection(collection_name), LAMBDA d : Matches(d, filt))]

\* db.list_collection_names(): the collections that hold a document.
list_collection_names ==
    IF db # "up"
    THEN [raised |-> TRUE, exc |-> DatabaseError, names |-> <<>>]
    ELSE [raised |-> FALSE, exc |-> "",
          names |-> SelectSeq(<<"medication", "intake", "caregiverlink">>,
                              LAMBDA c : Collection(c) # <<>>)]

(***************************************************************************)
(* Responses.                                                              *)
(***************************************************************************)
\* A handler's answer.  escaped: the failure left the handler as a bare
\* exception (not an HTTPException), which the framework answers with a
\* 500 that carries no detail.
Response(op, req, status, detail, body) ==
    [op |-> op, req |-> req, status |-> status, escaped |-> FALSE,
     detail |-> detail, body |-> body, exc |-> ""]

HTTPException(op, req, status, detail) == Response(op, req, status, detail, <<>>)

Unhandled(op, req, exc) ==
    [op |-> op, req |-> req, status |-> 500, escaped |-> TRUE,
     detail |-> "Internal Server Error", body |-> <<>>, exc |-> exc]

NoResponse == Response("none", <<>>, 0, "", <<>>)

(***************************************************************************)
(* src/schemas.py: the validated record shapes.                            *)
(***************************************************************************)
AllDays == <<0, 1, 2, 3, 4, 5, 6>>

\* Medication(**body): name, dosage and times are required; days and active
\* take their defaults when absent; no field carries a further constraint.
Medication(body) ==
    IF body.name = None \/ body.dosage = None \/ body.times = None
    THEN [raised |-> TRUE, value |-> <<>>]
    ELSE [raised |-> FALSE,
          value |-> [name   |-> body.name[1],
                     dosage |-> body.dosage[1],
                     times  |-> body.times[1],
                     days   |-> IF body.days = None THEN AllDays ELSE body.days[1],
                     notes  |-> body.notes,
                     active |-> IF body.active = None THEN TRUE ELSE body.active[1]]]

\* Intake(**body): medication_id, time and date are required.
Intake(body) ==
    IF body.medication_id = None \/ body.time = None \/ body.date = None
    THEN [raised |-> TRUE, value |-> <<>>]
    ELSE [raised |-> FALSE,
          value |-> [medication_id |-> body.medication_id[1],
                     time          |-> body.time[1],
                     date          |-> body.date[1],
                     taken_at      |-> body.taken_at]]

\* d["id"] = str(d.pop("_id")): the document with _id replaced by id.
WithPublicId(d) ==
    [k \in (DOMAIN d \ {"_id"}) \cup {"id"} |-> IF k = "id" THEN str(d._id) ELSE d[k]]

\* The loop that gives every fetched document its public id.
PublicDocs(docs) == [i \in DOMAIN docs |-> WithPublicId(docs[i])]

(***************************************************************************)
(* src/main.py: the handlers.  Each yields the answer and the store it     *)
(* leaves behind.                                                          *)
(***************************************************************************)
Reply(response) == [resp |-> response, store |-> store]

\* The request-validation layer rejects a body before the handler runs.
Unprocessable(op, req) == Response(op, req, 422, "validation error", <<>>)

read_root ==
    Reply(Response("read_root", <<>>, 200, "",
                   [message |-> "Pill Reminder Backend Running"]))

Getenv(name) == environ[name]

\* Faulty variant: a variable that is set but empty counts as set.
SetOrNotPresent(name) == IF Getenv(name) # None THEN "Set" ELSE "Not Set"

SetOrNot(name) == IF TruthyStr(Getenv(name)) THEN "Set" ELSE "Not Set"

FirstTen(s) == SubSeq(s, 1, IF Len(s) < 10 THEN Len(s) ELSE 10)

\* The report's texts are given without their leading pictographs.
test_database ==
    LET initial == [backend |-> "Running", database |-> "Not Available",
                    connection_status |-> "Not Connected", collections |-> <<>>]
        listed == list_collection_names
        probed ==
            IF db # "None"
            THEN IF listed.raised
                 THEN [initial EXCEPT !.connection_status = "Connected",
                                      !.database = "Connected but Error: server selection timed out"]
                 ELSE [initial EXCEPT !.connection_status = "Connected",
                                      !.collections = FirstTen(listed.names),
                                      !.database = "Connected & Working"]
            ELSE [initial EXCEPT !.database = "Available but not initialized"]
    IN  Reply(Response("test_database", <<>>, 200, "",
                       probed @@ [database_url  |-> SetOrNot("DATABASE_URL"),
                                  database_name |-> SetOrNot("DATABASE_NAME")]))

create_medication(payload) ==
    LET req == [payload |-> payload]
        checked == Medication(payload)
        made == create_document("medication", checked.value)
    IN  IF checked.raised THEN Reply(Unprocessable("create_medication", req))
        ELSE IF made.raised
        THEN Reply(HTTPException("create_medication", req, 500, made.exc))
        ELSE [resp  |-> Response("create_medication", req, 200, "", [id |-> made.id]),
              store |-> <<Append(medication, made.doc), intake, caregiverlink>>]

list_medications ==
    LET got == get_documents("medication", NoFilter)
    IN  IF got.raised
        THEN Reply(HTTPException("list_medications", <<>>, 500, got.exc))
        ELSE Reply(Response("list_medications", <<>>, 200, "",
                            PublicDocs(got.docs)))

log_intake(payload) ==
    LET req == [payload |-> payload]
        checked == Intake(payload)
        made == create_document("intake", checked.value)
    IN  IF checked.raised THEN Reply(Unprocessable("log_intake", req))
        ELSE IF made.raised
        THEN Reply(HTTPException("log_intake", req, 500, made.exc))
        ELSE [resp  |-> Response("log_intake", req, 200, "", [id |-> made.id]),
              store |-> <<medication, Append(intake, made.doc), caregiverlink>>]

\* Faulty variant: the date parameter is left out of the filter.
IntakeFilterWithoutDate(medication_id, date) ==
    IF TruthyStr(medication_id) THEN [medication_id |-> medication_id[1]] ELSE <<>>

\* The equality filter of the two intake listings: a key for each parameter
\* that is truthy.
IntakeFilter(medication_id, date) ==
    (IF TruthyStr(medication_id) THEN [medication_id |-> medication_id[1]] ELSE <<>>)
    @@ (IF TruthyStr(date) THEN [date |-> date[1]] ELSE <<>>)

list_intakes(medication_id, date) ==
    LET req == [medication_id |-> medication_id, date |-> date]
        got == get_documents("intake", IntakeFilter(medication_id, date))
    IN  IF got.raised
        THEN Reply(HTTPException("list_intakes", req, 500, got.exc))
        ELSE Reply(Response("list_intakes", req, 200, "",
                            PublicDocs(got.docs)))

\* m.get("days", [0,1,2,3,4,5,6]) and m.get("times", [])
DaysOf(m) == IF "days" \in DOMAIN m THEN m.days ELSE AllDays

TimesOf(m) == IF "times" \in DOMAIN m THEN m.times ELSE <<>>

\* The items one medication contributes on a weekday, in the order of its times.
ItemsOf(m, wd) ==
    IF wd \in Range(DaysOf(m))
    THEN [j \in DOMAIN TimesOf(m) |->
             [medication_id |-> str(m._id), name |-> m.name,
              dosage |-> m.dosage, time |-> TimesOf(m)[j]]]
    ELSE <<>>

\* The loop over meds: the items of each, appended in the order of the store.
RECURSIVE Expand(_, _)
Expand(meds, wd) ==
    IF meds = <<>> THEN <<>>
    ELSE ItemsOf(Head(meds), wd) \o Expand(Tail(meds), wd)

get_schedule(date) ==
    LET req == [date |-> date]
        target == IF TruthyIso(date) THEN fromisoformat(date[1]) ELSE datetime_now
        wd == weekday(target)
        meds == get_documents("medication", [active |-> TRUE])
    IN  IF target.raised
        THEN Reply(HTTPException("get_schedule", req, 500, target.exc))
        ELSE IF meds.raised
        THEN Reply(HTTPException("get_schedule", req, 500, meds.exc))
        ELSE Reply(Response("get_schedule", req, 200, "",
                            [date    |-> date_isoformat(target),
                             weekday |-> wd,
                             items   |-> SortByTime(Expand(meds.docs, wd))]))

\* base = FRONTEND_URL or PUBLIC_FRONTEND_URL or ""; the link is the text
\* base + "/?share=" + token, given here by its parts, or the bare token.
ShareUrl(token) ==
    LET base == IF TruthyStr(Getenv("FRONTEND_URL")) THEN Getenv("FRONTEND_URL")[1]
                ELSE IF TruthyStr(Getenv("PUBLIC_FRONTEND_URL"))
                     THEN Getenv("PUBLIC_FRONTEND_URL")[1]
                ELSE ""
    IN  IF base # "" THEN <<base, "/?share=", token>> ELSE <<token>>

\* Faulty variant: a new link replaces the stored links that carry its token.
create_share_link_replacing(payload, token) ==
    LET req == [payload |-> payload]
        doc == [token |-> token, read_only |-> TRUE,
                expires_at |-> payload.expires_at,
                medication_ids |-> payload.medication_ids]
        made == create_document("caregiverlink", doc)
    IN  IF made.raised
        THEN Reply(HTTPException("create_share_link", req, 500, made.exc))
        ELSE [resp  |-> Response("create_share_link", req, 200, "",
                                 [token |-> token, url |-> ShareUrl(token)]),
              store |-> <<medication, intake,
                          Append(SelectSeq(caregiverlink, LAMBDA l : l.token # token),
                                 made.doc)>>]

\* token stands for uuid.uuid4().hex[:12], drawn by the caller.
create_share_link(payload, token) ==
    LET req == [payload |-> payload]
        doc == [token |-> token, read_only |-> TRUE,
                expires_at |-> payload.expires_at,
                medication_ids |-> payload.medication_ids]
        made == create_document("caregiverlink", doc)
    IN  IF made.raised
        THEN Reply(HTTPException("create_share_link", req, 500, made.exc))
        ELSE [resp  |-> Response("create_share_link", req, 200, "",
                                 [token |-> token, url |-> ShareUrl(token)]),
              store |-> <<medication, intake, Append(caregiverlink, made.doc)>>]

\* The outcome of _validate_share_token: the link ("ok"), an HTTPException
\* ("http"), or another exception that nothing catches ("exception").
Validated(kind, status, detail, link) ==
    [kind |-> kind, status |-> status, detail |-> detail, link |-> link]

\* Faulty variant: the last of the matching links.
LastMatchedLink(links) == links[Len(links)]

\* link = links[0]
MatchedLink(links) == links[1]

\* datetime.fromisoformat(expires_at) < datetime.utcnow(): a TypeError when
\* the parsed value is aware, since utcnow() is naive.
_validate_share_token(token) ==
    LET links == get_documents("caregiverlink", [token |-> token])
        link == MatchedLink(links.docs)
        expires_at == link.expires_at
        parsed == fromisoformat(expires_at[1])
    IN  IF links.raised THEN Validated("exception", 500, links.exc, <<>>)
        ELSE IF links.docs = <<>> THEN Validated("http", 404, "Share link not found", <<>>)
        ELSE IF ~TruthyIso(expires_at) THEN Validated("ok", 200, "", link)
        ELSE IF parsed.raised THEN Validated("ok", 200, "", link)
        ELSE IF parsed.aware
        THEN Validated("exception", 500,
                       "can't compare offset-naive and offset-aware datetimes", <<>>)
        ELSE IF ToOrdinal(parsed) < ToOrdinal(datetime_now)
        THEN Validated("http", 410, "Share link expired", <<>>)
        ELSE Validated("ok", 200, "", link)

\* How a failed validation leaves a shared handler.
Rejected(op, req, v) ==
    IF v.kind = "http" THEN HTTPException(op, req, v.status, v.detail)
    ELSE Unhandled(op, req, v.detail)

\* set(link.get("medication_ids") or [])
Allowed(link) == Range(OrEmptyList(link.medication_ids))

\* Faulty variant: the restriction is not applied to the items.
AllItems(items, allowed) == items

\* [i for i in sched["items"] if i["medication_id"] in allowed], if allowed
VisibleItems(items, allowed) ==
    IF allowed # {} THEN SelectSeq(items, LAMBDA i : i.medication_id \in allowed)
    ELSE items

\* Faulty variant: the restriction is not applied to the fetched intakes.
AllIntakes(docs, allowed) == docs

\* [d for d in docs if d.get("medication_id") in allowed], if allowed
VisibleIntakes(docs, allowed) ==
    IF allowed # {} THEN SelectSeq(docs, LAMBDA d : d.medication_id \in allowed)
    ELSE docs

shared_schedule(token, date) ==
    LET req == [token |-> token, date |-> date]
        v == _validate_share_token(token)
        allowed == Allowed(v.link)
        sched == get_schedule(date).resp
    IN  IF v.kind # "ok" THEN Reply(Rejected("shared_schedule", req, v))
        ELSE IF sched.status # 200
        THEN Reply(HTTPException("shared_schedule", req, sched.status, sched.detail))
        ELSE Reply(Response("shared_schedule", req, 200, "",
                 [sched.body EXCEPT !.items = VisibleItems(sched.body.items, allowed)]))

shared_intakes(token, medication_id, date) ==
    LET req == [token |-> token, medication_id |-> medication_id, date |-> date]
        v == _validate_share_token(token)
        allowed == Allowed(v.link)
        got == get_documents("intake", IntakeFilter(medication_id, date))
        docs == VisibleIntakes(got.docs, allowed)
    IN  IF v.kind # "ok" THEN Reply(Rejected("shared_intakes", req, v))
        ELSE IF allowed # {} /\ TruthyStr(medication_id) /\ medication_id[1] \notin allowed
        THEN Reply(HTTPException("shared_intakes", req, 403,
                                 "Not permitted for this medication"))
        ELSE IF got.raised THEN Reply(Unhandled("shared_intakes", req, got.exc))
        ELSE Reply(Response("shared_intakes", req, 200, "", PublicDocs(docs)))

(***************************************************************************)
(* Inputs of the requests.                                                 *)
(***************************************************************************)
\* "07:30", "08:00", "09:00", "20:00" and the unpadded "9:00".
T0730 == <<0, 7, 10, 3, 0>>

T0800 == <<0, 8, 10, 0, 0>>

T0900 == <<0, 9, 10, 0, 0>>

T2000 == <<2, 0, 10, 0, 0>>

T900 == <<9, 10, 0, 0>>

TimeTexts == {T0730, T0800, T0900, T2000, T900}

MedicationBody(name, times, days, active) ==
    [name |-> name, dosage |-> Some("1 pill"), times |-> times, days |-> days,
     notes |-> None, active |-> active]

MedicationBodiesCore ==
    { MedicationBody(Some("Aspirin"), Some(<<T0800, T2000>>), Some(<<0, 2, 4>>), None) }

MedicationBodiesTwo ==
    MedicationBodiesCore
    \cup { MedicationBody(Some("Ibuprofen"), Some(<<T0730>>), None, Some(TRUE)) }

MedicationBodies ==
    MedicationBodiesTwo
    \cup { MedicationBody(Some("Zinc"), Some(<<T2000, T0800, T0800>>), Some(<<2, 3>>), None),
           MedicationBody(Some("Iron"), Some(<<T900, T0900>>), Some(<<1, 6>>), Some(TRUE)),
           MedicationBody(Some("Aspirin"), Some(<<T0730>>), None, Some(FALSE)),
           MedicationBody(Some(""), Some(<<>>), Some(<<7>>), None),
           MedicationBody(None, Some(<<T0900>>), None, None) }

IntakeBody(medication_id, date) ==
    [medication_id |-> medication_id, time |-> Some("08:00"), date |-> date,
     taken_at |-> None]

IntakeBodiesCore == { IntakeBody(Some("m1"), Some("2024-02-28")) }

IntakeBodies ==
    IntakeBodiesCore
    \cup { IntakeBody(Some("m2"), Some("2024-02-28")),
           IntakeBody(Some("m1"), Some("2024-02-29")),
           IntakeBody(Some("m2"), None) }

MedicationIdParams == {None, Some(""), Some("m1"), Some("m2"), Some("zz")}

DateParams == {None, Some(""), Some("2024-02-28"), Some("2024-02-29")}

Day(y, m, d) == IsoText("date", y, m, d, "")

\* Texts given to GET /api/schedule as its date.
ScheduleDatesCore == {None, Some(Day(2024, 2, 28)), Some(GarbageText)}

ScheduleDates ==
    ScheduleDatesCore
    \cup { Some(EmptyText),
           Some(Day(2024, 1, 1)), Some(Day(2024, 1, 2)), Some(Day(2023, 12, 31)),
           Some(IsoText("datetime", 2024, 2, 29, "")),
           Some(IsoText("datetime", 2024, 3, 2, "+00:00")),
           Some(Day(2024, 2, 30)), Some(Day(2023, 2, 29)), Some(Day(2024, 13, 1)) }

\* Values of uuid.uuid4().hex[:12].
Tokens == {"a3f9c2e81b07", "5d2e9a7c4f10"}

\* The draws of the runs in which the tokens play no part.
OneToken == {"a3f9c2e81b07"}

\* A token that no link was given.
UnknownToken == "000000000000"

TokenParams == Tokens \cup {UnknownToken}

ShareBody(medication_ids, expires_at) ==
    [medication_ids |-> medication_ids, expires_at |-> expires_at]

ShareBodiesCore == { ShareBody(None, None), ShareBody(Some(<<"m1">>), None) }

\* A link that lapses while the clock runs, beside the lasting ones.
ShareBodiesLapsing ==
    ShareBodiesCore \cup { ShareBody(None, Some(IsoText("datetime", 2024, 2, 29, ""))) }

\* Restrictions of every kind, without an expiry.
ShareBodiesRestricting ==
    ShareBodiesCore \cup { ShareBody(Some(<<>>), None), ShareBody(Some(<<"m2", "zz">>), None) }

\* Expiries of every kind.
ShareBodiesExpiring ==
    { ShareBody(None, None),
      ShareBody(None, Some(EmptyText)),
      ShareBody(Some(<<>>), Some(GarbageText)),
      ShareBody(Some(<<"m1">>), Some(IsoText("datetime", 2024, 2, 29, ""))),
      ShareBody(None, Some(Day(2024, 2, 27))),
      ShareBody(None, Some(IsoText("datetime", 2020, 1, 1, "+00:00"))),
      ShareBody(None, Some(IsoText("datetime", 2030, 1, 1, "+00:00"))) }

Environ(url, name, frontend, public) ==
    [DATABASE_URL |-> url, DATABASE_NAME |-> name,
     FRONTEND_URL |-> frontend, PUBLIC_FRONTEND_URL |-> public]

EnvText == {None, Some(""), Some("configured")}

Handles == {"None", "down", "up"}

\* The clock starts on Wednesday 2024-02-28.
StartDay == [y |-> 2024, m |-> 2, d |-> 28]

(***************************************************************************)
(* Actions: one per endpoint, and the passing of a day.                    *)
(***************************************************************************)
Commit(r) ==
    /\ resp' = r.resp
    /\ medication' = r.store[1]
    /\ intake' = r.store[2]
    /\ caregiverlink' = r.store[3]
    /\ UNCHANGED <<db, environ, now>>

GetRoot == Commit(read_root)

GetTest == Commit(test_database)

PostMedication(bodies) ==
    \E payload \in bodies :
        /\ Len(medication) < MaxMeds
        /\ Commit(create_medication(payload))

GetMedications == Commit(list_medications)

PostIntake(bodies) ==
    \E payload \in bodies :
        /\ Len(intake) < MaxIntakes
        /\ Commit(log_intake(payload))

GetIntakes(ids, dates) ==
    \E medication_id \in ids, date \in dates :
        Commit(list_intakes(medication_id, date))

GetSchedule(dates) ==
    \E date \in dates : Commit(get_schedule(date))

PostShare(bodies, tokens) ==
    \E payload \in bodies, token \in tokens :
        /\ Len(caregiverlink) < MaxLinks
        /\ Commit(create_share_link(payload, token))

GetSharedSchedule(dates) ==
    \E token \in TokenParams, date \in dates :
        Commit(shared_schedule(token, date))

GetSharedIntakes(tokens, ids, dates) ==
    \E token \in tokens, medication_id \in ids, date \in dates :
        Commit(shared_intakes(token, medication_id, date))

Tick ==
    /\ ToOrdinal(now) - ToOrdinal(StartDay) < MaxTicks
    /\ now' = NextDay(now)
    /\ resp' = NoResponse
    /\ UNCHANGED <<medication, intake, caregiverlink, db, environ>>

(***************************************************************************)
(* Specifications.                                                         *)
(***************************************************************************)
InitStore ==
    /\ medication = <<>>
    /\ intake = <<>>
    /\ caregiverlink = <<>>
    /\ now = StartDay
    /\ resp = NoResponse

\* The whole service.
Init ==
    /\ InitStore
    /\ db \in Handles
    /\ environ \in {Environ(Some("configured"), Some("configured"), f, None) :
                        f \in {None, Some("https://app")}}

Next ==
    \/ GetRoot
    \/ GetTest
    \/ PostMedication(MedicationBodiesCore)
    \/ GetMedications
    \/ PostIntake(IntakeBodiesCore)
    \/ GetIntakes({None, Some("m1")}, {None})
    \/ GetSchedule({None, Some(GarbageText)})
    \/ PostShare(ShareBodiesLapsing, OneToken)
    \/ GetSharedSchedule({None})
    \/ GetSharedIntakes(TokenParams, {None, Some("m2")}, {None})
    \/ Tick

Spec == Init /\ [][Next]_vars

\* Diagnostics under every environment.
InitDiag ==
    /\ InitStore
    /\ db \in Handles
    /\ environ \in {Environ(u, n, None, None) : u \in EnvText, n \in EnvText}

NextDiag ==
    \/ GetRoot
    \/ GetTest
    \/ PostMedication(MedicationBodiesCore)
    \/ PostIntake(IntakeBodiesCore)
    \/ PostShare(ShareBodiesCore, OneToken)

SpecDiag == InitDiag /\ [][NextDiag]_vars

InitUp ==
    /\ InitStore
    /\ db \in Handles
    /\ environ = Environ(Some("configured"), Some("configured"), None, None)

\* Medications and the schedule.
NextSchedule ==
    \/ PostMedication(MedicationBodies)
    \/ GetMedications
    \/ GetSchedule(ScheduleDates)
    \/ Tick

SpecSchedule == InitUp /\ [][NextSchedule]_vars

\* Intakes and their listing.
NextIntakes ==
    \/ PostIntake(IntakeBodies)
    \/ GetIntakes(MedicationIdParams, DateParams)

SpecIntakes == InitUp /\ [][NextIntakes]_vars

\* The caregiver's schedule.
NextSharedSchedule ==
    \/ PostMedication(MedicationBodiesTwo)
    \/ PostShare(ShareBodiesRestricting, Tokens)
    \/ GetSchedule(ScheduleDatesCore)
    \/ GetSharedSchedule(ScheduleDatesCore)

SpecSharedSchedule == InitUp /\ [][NextSharedSchedule]_vars

\* The caregiver's intakes.
NextSharedIntakes ==
    \/ PostIntake(IntakeBodies)
    \/ PostShare(ShareBodiesRestricting, OneToken)
    \/ GetSharedIntakes(OneToken \cup {UnknownToken}, MedicationIdParams, DateParams)

SpecSharedIntakes == InitUp /\ [][NextSharedIntakes]_vars

\* Share tokens and their expiry.
NextExpiry ==
    \/ PostShare(ShareBodiesExpiring, Tokens)
    \/ GetSharedSchedule({None})
    \/ GetSharedIntakes(TokenParams, {None}, {None})
    \/ Tick

SpecExpiry == InitUp /\ [][NextExpiry]_vars

(***************************************************************************)
(* Properties.                                                             *)
(***************************************************************************)
\* The calendar: days whose weekday is known (0 = Monday .. 6 = Sunday).
Calendar ==
    { <<2023, 12, 31, 6>>, <<2024, 1, 1, 0>>, <<2024, 1, 2, 1>>,
      <<2024, 2, 28, 2>>, <<2024, 2, 29, 3>>, <<2024, 3, 1, 4>>,
      <<2024, 3, 2, 5>>,  <<2024, 3, 3, 6>>,  <<2024, 3, 4, 0>> }

OnCalendar(t) == \E w \in 0..6 : <<t.y, t.m, t.d, w>> \in Calendar

CalendarWeekday(t) == CHOOSE w \in 0..6 : <<t.y, t.m, t.d, w>> \in Calendar

\* The day a schedule request is about: the one its date names, or today.
TargetDay(date) == IF TruthyIso(date) THEN date[1] ELSE now

Count(S) == Cardinality(S)

\* C1: a successful GET /api/schedule lists exactly one item per (medication,
\* time entry) of the medications stored active whose days contain the
\* weekday of the target date, each with that medication's id, name and
\* dosage, none from any other medication, in ascending order of the time
\* text; and the request succeeds whenever the store answers and the date is
\* a day of the calendar.
C1_ScheduleExact ==
    resp.op = "get_schedule" =>
        LET date == resp.req.date
            wd == CalendarWeekday(TargetDay(date))
            items == resp.body.items
            Due(m) == m.active /\ wd \in Range(m.days)
        IN  /\ (db = "up" /\ OnCalendar(TargetDay(date))) => resp.status = 200
            /\ resp.status = 200 =>
                /\ OnCalendar(TargetDay(date))
                /\ resp.body.weekday = wd
                /\ \A i \in DOMAIN medication : \A t \in TimeTexts :
                      Count({k \in DOMAIN items :
                                items[k] = [medication_id |-> IdText.medication[i],
                                            name |-> medication[i].name,
                                            dosage |-> medication[i].dosage,
                                            time |-> t]})
                      = IF Due(medication[i])
                        THEN Count({j \in DOMAIN medication[i].times :
                                       medication[i].times[j] = t})
                        ELSE 0
                /\ \A k \in DOMAIN items :
                      \E i \in DOMAIN medication :
                          /\ items[k].medication_id = IdText.medication[i]
                          /\ Due(medication[i])
                          /\ items[k].time \in Range(medication[i].times)
                /\ \A k \in DOMAIN items : \A l \in DOMAIN items :
                      k < l => ~StrLess(items[l].time, items[k].time)

\* Both stored medications are due and the sort has moved an item of the
\* second one in front of an item of the first.
C1_Witness ==
    /\ resp.op = "get_schedule"
    /\ resp.status = 200
    /\ \E k \in DOMAIN resp.body.items : \E l \in DOMAIN resp.body.items :
          /\ k < l
          /\ resp.body.items[k].medication_id = "m2"
          /\ resp.body.items[l].medication_id = "m1"
    /\ Len(resp.body.items) = 3

\* C7: every stored medication has a non-empty name and days that are all in
\* 0..6 (a create request with an empty name or a day outside 0..6 stores
\* nothing).
C7_StoredMedicationsValid ==
    \A i \in DOMAIN medication :
        /\ medication[i].name # ""
        /\ \A d \in Range(medication[i].days) : d \in 0..6

\* A parameter that was supplied at all, and one that was supplied with text.
Supplied(o) == o # None

SuppliedText(o) == o # None /\ o[1] # ""

\* The stored intakes at the positions S, under their public ids.
PublicIntakes(S) == {WithPublicId(intake[i]) : i \in S}

\* The body of a listing is exactly the set S, each member once.
ListsExactly(body, S) == Range(body) = S /\ Len(body) = Cardinality(S)

\* C5 as stated: GET /api/intakes answers exactly the stored intakes whose
\* fields equal every supplied parameter.
C5_FilterSupplied ==
    resp.op = "list_intakes" =>
        LET mid == resp.req.medication_id
            date == resp.req.date
            Sel(d) == /\ Supplied(mid) => d.medication_id = mid[1]
                      /\ Supplied(date) => d.date = date[1]
        IN  db = "up" => resp.status = 200 /\ ListsExactly(resp.body,
                    PublicIntakes({i \in DOMAIN intake : Sel(intake[i])}))

\* C5 amended: GET /api/intakes answers exactly the stored intakes whose
\* fields equal every parameter supplied with a non-empty text; a parameter
\* that is absent or empty does not filter.
C5_FilterNonEmpty ==
    resp.op = "list_intakes" =>
        LET mid == resp.req.medication_id
            date == resp.req.date
            Sel(d) == /\ SuppliedText(mid) => d.medication_id = mid[1]
                      /\ SuppliedText(date) => d.date = date[1]
        IN  db = "up" => resp.status = 200 /\ ListsExactly(resp.body,
                    PublicIntakes({i \in DOMAIN intake : Sel(intake[i])}))

\* Intakes of two medications on one date are stored and the listing by
\* date alone holds both, or the listing by medication holds just one.
C5_Witness ==
    /\ resp.op = "list_intakes"
    /\ resp.status = 200
    /\ Len(intake) = 2
    /\ intake[1].medication_id # intake[2].medication_id
    /\ intake[1].date = intake[2].date
    /\ resp.req.medication_id = None
    /\ SuppliedText(resp.req.date)
    /\ Len(resp.body) = 2

\* The first stored link that carries the token of a request.
HasLink(token) == \E i \in DOMAIN caregiverlink : caregiverlink[i].token = token

FirstLink(token) ==
    caregiverlink[CHOOSE i \in DOMAIN caregiverlink :
                     /\ caregiverlink[i].token = token
                     /\ \A j \in DOMAIN caregiverlink :
                           caregiverlink[j].token = token => i <= j]

\* The restriction of a link: the members of its medication_ids, none when
\* the field is absent or empty.
Restriction(link) ==
    IF link.medication_ids = None THEN {} ELSE Range(link.medication_ids[1])

\* C3 as stated: through a link with a non-empty restriction, GET
\* /api/share/{token}/intakes answers 403 when a medication_id is supplied
\* that is not in the restriction, and otherwise exactly the stored intakes
\* that match the supplied parameters and lie in the restriction.
C3_SharedIntakesSupplied ==
    (resp.op = "shared_intakes" /\ HasLink(resp.req.token)) =>
        LET mid == resp.req.medication_id
            date == resp.req.date
            R == Restriction(FirstLink(resp.req.token))
            Sel(d) == /\ Supplied(mid) => d.medication_id = mid[1]
                      /\ Supplied(date) => d.date = date[1]
                      /\ d.medication_id \in R
        IN  R # {} =>
               IF Supplied(mid) /\ mid[1] \notin R
               THEN resp.status = 403
               ELSE resp.status = 200 /\ ListsExactly(resp.body,
                    PublicIntakes({i \in DOMAIN intake : Sel(intake[i])}))

\* C3 amended: the same with "supplied" read as "supplied with a non-empty
\* text"; an empty medication_id or date is treated as absent.  No intake
\* outside the restriction is ever answered.
C3_SharedIntakesNonEmpty ==
    (resp.op = "shared_intakes" /\ HasLink(resp.req.token)) =>
        LET mid == resp.req.medication_id
            date == resp.req.date
            R == Restriction(FirstLink(resp.req.token))
            Sel(d) == /\ SuppliedText(mid) => d.medication_id = mid[1]
                      /\ SuppliedText(date) => d.date = date[1]
                      /\ d.medication_id \in R
        IN  R # {} =>
               /\ IF SuppliedText(mid) /\ mid[1] \notin R
                  THEN resp.status = 403
                  ELSE resp.status = 200 /\ ListsExactly(resp.body,
                    PublicIntakes({i \in DOMAIN intake : Sel(intake[i])}))
               /\ resp.status = 200 =>
                     \A k \in DOMAIN resp.body : resp.body[k].medication_id \in R

\* A restricted link answers a request without medication_id while the store
\* holds an intake outside the restriction: one intake shown, one withheld.
C3_Witness ==
    /\ resp.op = "shared_intakes"
    /\ resp.status = 200
    /\ HasLink(resp.req.token)
    /\ Restriction(FirstLink(resp.req.token)) = {"m1"}
    /\ resp.req.medication_id = None
    /\ \E i \in DOMAIN intake : intake[i].medication_id = "m2"
    /\ Len(resp.body) = 1

SharedOps == {"shared_schedule", "shared_intakes"}

\* C2: through a valid token, GET /api/share/{token}/schedule answers as GET
\* /api/schedule does for the same date (status, date, weekday), with the
\* items of the full schedule whose medication is in the link's restriction,
\* in their order, when the restriction is non-empty, and with all the items
\* when medication_ids is absent or empty.
C2_SharedScheduleFiltered ==
    (resp.op = "shared_schedule" /\ HasLink(resp.req.token)) =>
        LET full == get_schedule(resp.req.date).resp
            R == Restriction(FirstLink(resp.req.token))
        IN  /\ resp.status = full.status
            /\ resp.status = 200 =>
                /\ resp.body.date = full.body.date
                /\ resp.body.weekday = full.body.weekday
                /\ resp.body.items =
                      IF R = {} THEN full.body.items
                      ELSE SelectSeq(full.body.items, LAMBDA i : i.medication_id \in R)

\* Two medications are due; the link shows one of them and the shared
\* schedule is a proper, non-empty part of the full one.
C2_Witness ==
    /\ resp.op = "shared_schedule"
    /\ resp.status = 200
    /\ HasLink(resp.req.token)
    /\ Restriction(FirstLink(resp.req.token)) = {"m1"}
    /\ Len(resp.body.items) = 2
    /\ Len(get_schedule(resp.req.date).resp.body.items) = 3

\* A text that is an ISO-8601 timestamp, and the order of two days.
Parseable(text) == text.kind \in {"date", "datetime"}

Earlier(a, b) ==
    \/ a.y < b.y
    \/ a.y = b.y /\ a.m < b.m
    \/ a.y = b.y /\ a.m = b.m /\ a.d < b.d

\* C4: while the store answers, both shared endpoints answer 404 to a token
\* no stored link carries, 410 when the link's expires_at is a parseable
\* timestamp (with or without a UTC offset) earlier than now, and succeed
\* when expires_at is absent, in the future or unparseable.
C4_TokenValidation ==
    (resp.op \in SharedOps /\ db = "up") =>
        IF ~HasLink(resp.req.token) THEN resp.status = 404
        ELSE LET e == FirstLink(resp.req.token).expires_at
             IN  IF e # None /\ Parseable(e[1]) /\ Earlier(e[1], now)
                 THEN resp.status = 410
                 ELSE resp.status = 200

\* C6: when the store does not answer, every endpoint but GET / and GET /test
\* answers 500 with the failure's text as its detail, and no failure leaves a
\* handler unwrapped.
C6_FailuresWrapped ==
    (db # "up" /\ resp.op \notin {"none", "read_root", "test_database"}) =>
        /\ resp.status = 500
        /\ ~resp.escaped
        /\ resp.detail \in {DatabaseError, "Invalid isoformat string"}

IsPrefix(s, t) == Len(s) <= Len(t) /\ SubSeq(t, 1, Len(s)) = s

Records == Len(medication) + Len(intake) + Len(caregiverlink)

CreateOps == {"create_medication", "log_intake", "create_share_link"}

\* C9: every step keeps every stored record, with its fields, where it is;
\* a successful create adds one record to its own collection and nothing
\* else; every other request, and the passing of time, leaves the three
\* collections as they are.
C9_RecordsPermanent ==
    [][ /\ IsPrefix(medication, medication')
        /\ IsPrefix(intake, intake')
        /\ IsPrefix(caregiverlink, caregiverlink')
        /\ IF resp'.op \in CreateOps /\ resp'.status = 200
           THEN /\ Records' = Records + 1
                /\ resp'.op = "create_medication" => Len(medication') = Len(medication) + 1
                /\ resp'.op = "log_intake" => Len(intake') = Len(intake) + 1
                /\ resp'.op = "create_share_link" =>
                      Len(caregiverlink') = Len(caregiverlink) + 1
           ELSE store' = store ]_vars

\* A lapsed link has been refused and is still stored.
C9_Witness ==
    /\ resp.op = "shared_intakes"
    /\ resp.status = 410
    /\ HasLink(resp.req.token)
    /\ medication # <<>>
    /\ intake # <<>>

\* C10 as stated: GET /test always answers, and without a handle it reports
\* database "Not Available", connection_status "Not Connected", no
\* collections, and database_url / database_name as "Set" exactly when the
\* variable is non-empty.
C10_DegradedReport ==
    resp.op = "test_database" =>
        /\ resp.status = 200
        /\ db = "None" =>
            /\ resp.body.database = "Not Available"
            /\ resp.body.connection_status = "Not Connected"
            /\ resp.body.collections = <<>>
            /\ resp.body.database_url =
                  (IF SuppliedText(environ.DATABASE_URL) THEN "Set" ELSE "Not Set")
            /\ resp.body.database_name =
                  (IF SuppliedText(environ.DATABASE_NAME) THEN "Set" ELSE "Not Set")

\* C10 amended: the same, with database "Available but not initialized".
C10_DegradedReportAmended ==
    resp.op = "test_database" =>
        /\ resp.status = 200
        /\ db = "None" =>
            /\ resp.body.database = "Available but not initialized"
            /\ resp.body.connection_status = "Not Connected"
            /\ resp.body.collections = <<>>
            /\ resp.body.database_url =
                  (IF SuppliedText(environ.DATABASE_URL) THEN "Set" ELSE "Not Set")
            /\ resp.body.database_name =
                  (IF SuppliedText(environ.DATABASE_NAME) THEN "Set" ELSE "Not Set")

\* The report made without a handle, DATABASE_URL set but empty and
\* DATABASE_NAME configured.
C10_Witness ==
    /\ resp.op = "test_database"
    /\ db = "None"
    /\ environ.DATABASE_URL = Some("")
    /\ environ.DATABASE_NAME = Some("configured")
    /\ resp.body.database_url = "Not Set"
    /\ resp.body.database_name = "Set"

====
